---- MODULE Spec2Model ----
(***************************************************************************)
(* A model of stateRegexp.py: StateRegexp.regex and the helpers it calls.  *)
(*                                                                         *)
(* Conventions.                                                            *)
(*  - An input line "chrom\tstart\tend\tstate\tp" is a record              *)
(*    [chrom, start, end, state, p]; start/end are the integers that       *)
(*    int() reads and str() prints, p is the posterior in hundredths       *)
(*    (0.5 is 50), so "float(line[4]) > 0.5" is "p > Threshold".           *)
(*  - Python offsets are 0-based, TLA+ sequences 1-based: offset k of the  *)
(*    encoded string is s[k+1], input line index k is file[k+1].           *)
(*  - An output line is the sequence of its tab-separated fields.          *)
(***************************************************************************)
EXTENDS Integers, Sequences, FiniteSets, TLC

VARIABLES
    file,       \* the lines of the input file fnp
    size,       \* the capacity of the character array (_readfile's size)
    pattern,    \* regex()'s pattern: "BIVALENT" or "REPRPC"
    slop,       \* regex()'s slop
    binsize,    \* regex()'s binsize
    tag,        \* regex()'s tag (None when not given)
    overlapped, \* regex()'s overlapped
    bed3,       \* regex()'s bed3
    pc,         \* where the call of regex() is
    s,          \* the character array / encoded string
    i,          \* _readfile's line counter
    err,        \* the exception that aborted the run, "none" while running
    pos,        \* the offset at which finditer resumes its scan
    regs,       \* i.regs of the match being processed
    yielded,    \* the regs of every match finditer has yielded, in order
    n,          \* the reconstructor's cursor: lines read from f so far
    line,       \* the local variable `line` of regex()
    out         \* the lines written to the output sink, in order

vars == <<file, size, pattern, slop, binsize, tag, overlapped, bed3,
          pc, s, i, err, pos, regs, yielded, n, line, out>>

inputs == <<file, size, pattern, slop, binsize, tag, overlapped, bed3>>

----------------------------------------------------------------------------
(* Bounds of the model *)

\* longest input file of the exhaustive scan family
MaxLines == 8
\* longest input file of the encoder family
MaxEncLines == 3

----------------------------------------------------------------------------
(* Constant data of the program *)

alphabet ==
    [E16 |-> "A", E18 |-> "B", E10 |-> "C", E8  |-> "D", E14 |-> "E",
     E13 |-> "F", E17 |-> "G", E12 |-> "H", E15 |-> "I", E11 |-> "J",
     E1  |-> "K", E2  |-> "L", E9  |-> "M", E5  |-> "N", E3  |-> "O",
     E4  |-> "P", E6  |-> "Q", E7  |-> "R"]

\* the placeholder the array is initialised with
Dot == "."

\* 0.5, in hundredths
Threshold == 50

\* the default of regex()'s binsize
DefaultBinsize == 200

\* Python's None
None == "<None>"

\* the character classes of the two patterns
ClsKLNOPQR == {"K", "L", "N", "O", "P", "Q", "R"}
ClsMNOPQR  == {"M", "N", "O", "P", "Q", "R"}
ClsG       == {"G"}
ClsLK      == {"L", "K"}

One(c)  == [cls |-> c, plus |-> FALSE]
Plus(c) == [cls |-> c, plus |-> TRUE]

\* A pattern is the sequence of its items with the capture group's first
\* and last item.
\*   [KLNOPQR]([KLNOPQR]G+[KLNOPQR])[KLNOPQR]
BIVALENT ==
    [items |-> <<One(ClsKLNOPQR), One(ClsKLNOPQR), Plus(ClsG),
                 One(ClsKLNOPQR), One(ClsKLNOPQR)>>,
     gopen |-> 2, gclose |-> 4]

\*   [MNOPQR][KLNOPQR]([KLNOPQR][LK]+[KLNOPQR])[KLNOPQR][MNOPQR]
REPRPC ==
    [items |-> <<One(ClsMNOPQR), One(ClsKLNOPQR), One(ClsKLNOPQR),
                 Plus(ClsLK), One(ClsKLNOPQR), One(ClsKLNOPQR),
                 One(ClsMNOPQR)>>,
     gopen |-> 3, gclose |-> 5]

PatternNames == {"BIVALENT", "REPRPC"}

PatternOf(name) == IF name = "BIVALENT" THEN BIVALENT ELSE REPRPC

\* the file name: .../<tissue>_<timepoint>_mm10_...
fnp == [dir |-> "/some/path/", tissue |-> "lung", timepoint |-> "15.5",
        rest |-> "_mm10_18_posterior.bed"]

mouse_tissue(f) == f.tissue

mouse_timepoint(f) == f.timepoint

----------------------------------------------------------------------------
(* _readfile *)

\* array('b', '.'.encode('ascii') * size)
NewArray(sz) == [k \in 1..sz |-> Dot]

\* (mutant) the threshold is not strict
AboveThreshold_NotStrict(p) == p >= Threshold

\* "float(line[4]) > 0.5"
AboveThreshold(p) == p > Threshold

\* (mutant) an unknown label is passed over silently
ReadfileStep_SkipUnknown(st, ln) ==
    IF ln.p > Threshold /\ ln.state \in DOMAIN alphabet
    THEN IF st.i >= Len(st.s)
         THEN [st EXCEPT !.err = "IndexError: array assignment"]
         ELSE [s |-> [st.s EXCEPT ![st.i + 1] = alphabet[ln.state]],
               i |-> st.i + 1, err |-> "none"]
    ELSE [st EXCEPT !.i = st.i + 1]

\* (mutant) a write past the end of the array is dropped silently
ReadfileStep_DropExcess(st, ln) ==
    IF ln.p > Threshold
    THEN IF ln.state \notin DOMAIN alphabet
         THEN [st EXCEPT !.err = "KeyError"]
         ELSE IF st.i >= Len(st.s)
              THEN [st EXCEPT !.i = st.i + 1]
              ELSE [s |-> [st.s EXCEPT ![st.i + 1] = alphabet[ln.state]],
                    i |-> st.i + 1, err |-> "none"]
    ELSE [st EXCEPT !.i = st.i + 1]

\* One iteration of "for line in f" on the encoder's state
\* st = [s, i, err].  The right-hand side alphabet[line[3]] is evaluated
\* before the array is indexed, so an unknown label raises KeyError even at
\* an index past the array's end; s[i] = ... with i >= len(s) raises
\* IndexError.
ReadfileStep(st, ln) ==
    IF AboveThreshold(ln.p)
    THEN IF ln.state \notin DOMAIN alphabet
         THEN [st EXCEPT !.err = "KeyError"]
         ELSE IF st.i >= Len(st.s)
              THEN [st EXCEPT !.err = "IndexError: array assignment"]
              ELSE [s |-> [st.s EXCEPT ![st.i + 1] = alphabet[ln.state]],
                    i |-> st.i + 1, err |-> "none"]
    ELSE [st EXCEPT !.i = st.i + 1]

----------------------------------------------------------------------------
(* re.finditer(pattern, s, overlapped=overlapped) *)

\* the number of consecutive characters of class c from offset p on
RECURSIVE Run(_, _, _)
Run(str, c, p) ==
    IF p < Len(str) /\ str[p + 1] \in c THEN 1 + Run(str, c, p + 1) ELSE 0

\* The backtracking match of items k.. at offset p: <<>> when there is
\* none, otherwise the offsets at which items k, k+1, ... begin, followed
\* by the offset at which the match ends.  X+ is greedy: the longest run
\* is tried first, then shorter ones.
RECURSIVE MatchItems(_, _, _, _), TryPlus(_, _, _, _, _)
MatchItems(items, k, str, p) ==
    IF k > Len(items) THEN <<p>>
    ELSE IF items[k].plus
         THEN TryPlus(items, k, str, p, Run(str, items[k].cls, p))
         ELSE IF p < Len(str) /\ str[p + 1] \in items[k].cls
              THEN LET rest == MatchItems(items, k + 1, str, p + 1)
                   IN  IF rest = <<>> THEN <<>> ELSE <<p>> \o rest
              ELSE <<>>

TryPlus(items, k, str, p, count) ==
    IF count < 1 THEN <<>>
    ELSE LET rest == MatchItems(items, k + 1, str, p + count)
         IN  IF rest # <<>> THEN <<p>> \o rest
             ELSE TryPlus(items, k, str, p, count - 1)

\* the regs of the match anchored at offset p: regs[0] is the whole match,
\* regs[1] the capture group; <<>> when the pattern does not match at p
MatchAt(pat, str, p) ==
    LET b == MatchItems(pat.items, 1, str, p)
    IN  IF b = <<>> THEN <<>>
        ELSE <<[start |-> b[1], end |-> b[Len(pat.items) + 1]],
               [start |-> b[pat.gopen], end |-> b[pat.gclose + 1]]>>

\* the leftmost match that starts at offset from or later
RECURSIVE Search(_, _, _)
Search(pat, str, from) ==
    IF from > Len(str) THEN <<>>
    ELSE LET m == MatchAt(pat, str, from)
         IN  IF m # <<>> THEN m ELSE Search(pat, str, from + 1)

\* (mutant) the scan resumes at the end of the match, overlapped or not
NextSearchPos_AtEnd(m, ovl) ==
    IF m[1].end > m[1].start THEN m[1].end ELSE m[1].end + 1

\* where the scan resumes after the match m
NextSearchPos(m, ovl) ==
    IF ovl THEN m[1].start + 1
    ELSE IF m[1].end > m[1].start THEN m[1].end ELSE m[1].end + 1

----------------------------------------------------------------------------
(* The reconstructor and the formatter: the body of regex()'s loop *)

\* (mutant) the guard stops one line early
SeekGuard_Strict(cursor, start) == cursor < start

\* the guard of "while n <= start"
SeekGuard(cursor, start) == cursor <= start

Max(a, b) == IF a >= b THEN a ELSE b

\* (mutant) the start is not floored at 0
Reconstruct_NoFloor(rec, length, sl, bs) ==
    LET l0 == <<rec.chrom, rec.start, rec.end>>
        l1 == [l0 EXCEPT ![3] = rec.end + bs * (length - 1)]
    IN  IF sl # 0
        THEN [l1 EXCEPT ![2] = rec.start - sl, ![3] = l1[3] + sl]
        ELSE l1

\* (mutant) the end is moved by a bin for every bin of the capture
Reconstruct_EveryBin(rec, length, sl, bs) ==
    LET l0 == <<rec.chrom, rec.start, rec.end>>
        l1 == [l0 EXCEPT ![3] = rec.end + bs * length]
    IN  IF sl # 0
        THEN [l1 EXCEPT ![2] = Max(0, rec.start - sl), ![3] = l1[3] + sl]
        ELSE l1

\* line.rstrip().split('\t')[0:3], then the end and slop arithmetic
Reconstruct(rec, length, sl, bs) ==
    LET l0 == <<rec.chrom, rec.start, rec.end>>
        l1 == [l0 EXCEPT ![3] = rec.end + bs * (length - 1)]
    IN  IF sl # 0
        THEN [l1 EXCEPT ![2] = Max(0, rec.start - sl), ![3] = l1[3] + sl]
        ELSE l1

\* "if tag:" is false for None and for the empty string
Truthy(t) == t \notin {None, ""}

\* (mutant) the tag is tested before bed3
OutputLine_TagFirst(l, tissue, timepoint, t, b3) ==
    IF Truthy(t) THEN l \o <<tissue, timepoint, t>>
    ELSE IF b3 THEN l
         ELSE l \o <<tissue, timepoint>>

\* the fields of the line of.write() writes
OutputLine(l, tissue, timepoint, t, b3) ==
    IF b3 THEN l
    ELSE IF Truthy(t) THEN l \o <<tissue, timepoint, t>>
         ELSE l \o <<tissue, timepoint>>

----------------------------------------------------------------------------
(* The steps of a call of regex() *)

\* one iteration of _readfile's loop over the lines of the file
ReadfileLine ==
    /\ pc = "readfile"
    /\ i < Len(file)
    /\ LET st == ReadfileStep([s |-> s, i |-> i, err |-> "none"], file[i + 1])
       IN  /\ s' = st.s
           /\ i' = st.i
           /\ err' = st.err
           /\ pc' = IF st.err = "none" THEN "readfile" ELSE "failed"
    /\ UNCHANGED <<inputs, pos, regs, yielded, n, line, out>>

\* the file is exhausted: _readfile returns the array, regex() decodes it
ReadfileReturn ==
    /\ pc = "readfile"
    /\ i = Len(file)
    /\ pc' = "finditer"
    /\ UNCHANGED <<inputs, s, i, err, pos, regs, yielded, n, line, out>>

\* (mutant) the string is scanned from its end: the rightmost match that
\* starts before offset Len(s) - pos is yielded
Finditer_Reverse ==
    /\ pc = "finditer"
    /\ LET cand == {p \in 0..(Len(s) - 1 - pos) :
                        MatchAt(PatternOf(pattern), s, p) # <<>>}
       IN  IF cand = {}
           THEN /\ pc' = "done"
                /\ UNCHANGED <<pos, regs, yielded>>
           ELSE LET p == CHOOSE q \in cand : \A r \in cand : r <= q
                    m == MatchAt(PatternOf(pattern), s, p)
                IN  /\ pc' = "seek"
                    /\ regs' = m
                    /\ yielded' = Append(yielded, m)
                    /\ pos' = Len(s) - p
    /\ UNCHANGED <<inputs, s, i, err, n, line, out>>

\* finditer yields its next match, or is exhausted and regex() returns
Finditer ==
    /\ pc = "finditer"
    /\ LET m == Search(PatternOf(pattern), s, pos)
       IN  IF m = <<>>
           THEN /\ pc' = "done"
                /\ UNCHANGED <<pos, regs, yielded>>
           ELSE /\ pc' = "seek"
                /\ regs' = m
                /\ yielded' = Append(yielded, m)
                /\ pos' = NextSearchPos(m, overlapped)
    /\ UNCHANGED <<inputs, s, i, err, n, line, out>>

\* one iteration of "while n <= start": f.readline() returns '' at the
\* end of the file
Readline ==
    /\ pc = "seek"
    /\ SeekGuard(n, regs[2].start)
    /\ line' = IF n < Len(file) THEN [kind |-> "str", rec |-> file[n + 1]]
               ELSE [kind |-> "eof"]
    /\ n' = n + 1
    /\ UNCHANGED <<inputs, pc, s, i, err, pos, regs, yielded, out>>

\* the rest of the loop body: the line is split, converted and written.
\* A `line` that is still the list of the previous iteration has no
\* rstrip(); the split of '' has no element 2.
Write ==
    /\ pc = "seek"
    /\ ~SeekGuard(n, regs[2].start)
    /\ IF line.kind = "str"
       THEN LET l == Reconstruct(line.rec, regs[2].end - regs[2].start,
                                 slop, binsize)
            IN  /\ line' = [kind |-> "list", fields |-> l]
                /\ out' = Append(out, OutputLine(l, mouse_tissue(fnp),
                                        mouse_timepoint(fnp), tag, bed3))
                /\ pc' = "finditer"
                /\ err' = err
       ELSE /\ pc' = "failed"
            /\ err' = IF line.kind = "list" THEN "AttributeError: rstrip"
                      ELSE IF line.kind = "eof" THEN "IndexError: list index"
                      ELSE "UnboundLocalError: line"
            /\ UNCHANGED <<line, out>>
    /\ UNCHANGED <<inputs, s, i, pos, regs, yielded, n>>

Next == ReadfileLine \/ ReadfileReturn \/ Finditer \/ Readline \/ Write

----------------------------------------------------------------------------
(* Input families *)

\* all sequences over K of length at most m
SeqsUpTo(K, m) == UNION {[1..len -> K] : len \in 0..m}

Kind(st, p) == [state |-> st, p |-> p]

\* a file of consecutive bins on one chromosome, the first starting at base
MkFile(ks, base) ==
    [k \in 1..Len(ks) |->
        [chrom |-> "chr10", start |-> base + DefaultBinsize * (k - 1),
         end |-> base + DefaultBinsize * k, state |-> ks[k].state,
         p |-> ks[k].p]]

\* the state-label of a symbol
LabelOf(sym) == CHOOSE lab \in DOMAIN alphabet : alphabet[lab] = sym

\* the file whose lines encode the symbols of str, every posterior 0.9
FileOf(str, base) == MkFile([k \in 1..Len(str) |-> Kind(LabelOf(str[k]), 90)], base)

\* the state of a fresh call regex(fnp, ...) on the given inputs
Start(f, sz, pat, sl, bs, t, ovl, b3) ==
    /\ file = f /\ size = sz /\ pattern = pat /\ slop = sl /\ binsize = bs
    /\ tag = t /\ overlapped = ovl /\ bed3 = b3
    /\ pc = "readfile" /\ s = NewArray(sz) /\ i = 0 /\ err = "none"
    /\ pos = 0 /\ regs = <<>> /\ yielded = <<>> /\ n = 0
    /\ line = [kind |-> "unbound"] /\ out = <<>>

Scenarios ==
    { <<"K","L","G","G","G","L","K">>,
      <<"K","K","G","G","G","K","K">>,
      <<"K","K","G","K","K","G","K","K">>,
      <<"N","N","N","K","K","N","N","N">>,
      <<"M","K","L","K","L","O","P","R">>,
      <<"A","Q","R","G","N","O","C">> }

\* the scenario files under every configuration
Init ==
    \E str \in Scenarios, base \in {0, 200, 1000}, pat \in PatternNames,
       sl \in {0, 200, 500}, bs \in {DefaultBinsize, 100},
       t \in {None, "", "bivalent"}, ovl \in BOOLEAN, b3 \in BOOLEAN :
        Start(FileOf(str, base), MaxLines, pat, sl, bs, t, ovl, b3)

Spec == Init /\ [][Next]_vars

\* the line kinds of the exhaustive scan, per pattern
ScanKinds(pat) ==
    IF pat = "BIVALENT"
    THEN {Kind("E1", 90), Kind("E17", 90), Kind("E1", 50)}
    ELSE {Kind("E5", 90), Kind("E1", 90), Kind("E9", 90), Kind("E1", 50)}

\* every file of at most MaxLines lines over the pattern's line kinds
InitScan ==
    \E pat \in PatternNames :
        \E ks \in SeqsUpTo(ScanKinds(pat), MaxLines) :
            Start(MkFile(ks, 0), MaxLines, pat, 0, DefaultBinsize,
                  "bivalent", TRUE, FALSE)

SpecScan == InitScan /\ [][Next]_vars

EncKinds == {Kind(st, p) : st \in {"E1", "E17", "E99"}, p \in {50, 51, 90}}

\* every file of at most MaxEncLines + 1 lines over the encoder's line
\* kinds, with a capacity the longest files exceed; and the scenarios
InitEnc ==
    \/ \E ks \in SeqsUpTo(EncKinds, MaxEncLines + 1),
          sz \in {MaxEncLines - 1, MaxEncLines} :
            Start(MkFile(ks, 0), sz, "BIVALENT", 0, DefaultBinsize,
                  "bivalent", TRUE, FALSE)
    \/ \E str \in Scenarios :
            Start(FileOf(str, 0), MaxLines, "BIVALENT", 0, DefaultBinsize,
                  "bivalent", TRUE, FALSE)

SpecEnc == InitEnc /\ [][Next]_vars

----------------------------------------------------------------------------
(* The encoder: claims C2, C5, C9, checked under SpecEnc *)

Known(ln) == ln.state \in DOMAIN alphabet

AllKnown == \A k \in 1..Len(file) : Known(file[k])

Min(a, b) == IF a <= b THEN a ELSE b

\* _readfile has not returned and has not raised
Reading == pc = "readfile"

\* _readfile has returned its array
Returned == pc \notin {"readfile", "failed"}

\* the symbol the specification gives a line with a known label
Expected(ln) == IF ln.p > 50 THEN alphabet[ln.state] ELSE "."

\* C2: for a file of N <= C lines whose labels are all in the alphabet,
\* _readfile does not fail and returns a sequence of length exactly C in
\* which position k < N holds the symbol of line k's label if its
\* confidence is strictly greater than 0.5 and '.' otherwise (0.5
\* included), and every position k >= N holds '.'.
C2_Encoding ==
    (Len(file) <= size /\ AllKnown) =>
        /\ pc # "failed"
        /\ Returned =>
            /\ Len(s) = size
            /\ \A k \in 1..size :
                 s[k] = IF k <= Len(file) THEN Expected(file[k]) ELSE "."

C2_Witness ==
    /\ pc = "finditer" /\ yielded = <<>>
    /\ Len(file) < size /\ AllKnown
    /\ \E k \in 1..Len(file) : file[k].p = 50
    /\ \E k \in 1..Len(file) : file[k].p = 51 /\ s[k] = "G"
    /\ s[size] = "."

C9_Original ==
    (~Reading /\ Len(file) > size /\ AllKnown) =>
        /\ pc # "failed"
        /\ \A k \in 1..size : s[k] = Expected(file[k])

\* C9 as amended: with more lines than the capacity C, the array keeps
\* its length C and no position < C is overwritten by a line at index
\* >= C; a line at index >= C is passed over silently only when its
\* confidence is at most 0.5.  The first line at index >= C with a
\* confidence > 0.5 aborts the run (an index error if its label is known,
\* a lookup error otherwise); only when every line at index >= C has a
\* confidence of at most 0.5 is the result the encoding of the first C
\* lines.
C9_Excess ==
    Len(file) > size =>
        /\ Len(s) = size
        /\ \A k \in (size + 1)..i : file[k].p <= 50
        /\ \A k \in 1..size :
             s[k] = IF k <= i THEN Expected(file[k]) ELSE "."
        /\ err = "IndexError: array assignment" =>
             /\ pc = "failed" /\ i >= size /\ i < Len(file)
             /\ file[i + 1].p > 50 /\ Known(file[i + 1])
        /\ (~Reading /\ \E k \in (size + 1)..Len(file) : file[k].p > 50)
             => (pc = "failed" /\ err \in {"IndexError: array assignment",
                                           "KeyError"})
        /\ Returned => i = Len(file)

C9_Witness ==
    /\ Len(file) > size /\ AllKnown
    /\ pc = "failed" /\ err = "IndexError: array assignment"
    /\ i > size
    /\ \E k \in 1..size : s[k] = "K"

----------------------------------------------------------------------------
(* The matcher and the cursor: claims C3, C4, C8, C10, under SpecScan *)

\* the character at offset q of str is in class c
At(str, q, c) == q >= 0 /\ q < Len(str) /\ str[q + 1] \in c

\* The patterns as the specification words them: some number k >= 1 of
\* core repetitions makes the pattern fit at offset p.
BivalentFits(str, p, k) ==
    /\ At(str, p, {"K","L","N","O","P","Q","R"})
    /\ At(str, p + 1, {"K","L","N","O","P","Q","R"})
    /\ \A j \in 1..k : At(str, p + 1 + j, {"G"})
    /\ At(str, p + 2 + k, {"K","L","N","O","P","Q","R"})
    /\ At(str, p + 3 + k, {"K","L","N","O","P","Q","R"})

ReprpcFits(str, p, k) ==
    /\ At(str, p, {"M","N","O","P","Q","R"})
    /\ At(str, p + 1, {"K","L","N","O","P","Q","R"})
    /\ At(str, p + 2, {"K","L","N","O","P","Q","R"})
    /\ \A j \in 1..k : At(str, p + 2 + j, {"L","K"})
    /\ At(str, p + 3 + k, {"K","L","N","O","P","Q","R"})
    /\ At(str, p + 4 + k, {"K","L","N","O","P","Q","R"})
    /\ At(str, p + 5 + k, {"M","N","O","P","Q","R"})

Fits(name, str, p, k) ==
    IF name = "BIVALENT" THEN BivalentFits(str, p, k) ELSE ReprpcFits(str, p, k)

\* the pattern matches at offset p
MatchesAt(name, str, p) == \E k \in 1..Len(str) : Fits(name, str, p, k)

\* the regs of a match at offset p with k core repetitions
RegsOf(name, p, k) ==
    IF name = "BIVALENT"
    THEN <<[start |-> p, end |-> p + 4 + k], [start |-> p + 1, end |-> p + 3 + k]>>
    ELSE <<[start |-> p, end |-> p + 6 + k], [start |-> p + 2, end |-> p + 4 + k]>>

YieldedStarts == {yielded[k][1].start : k \in 1..Len(yielded)}

\* C3: with overlapped matching, after a match starting at offset p the
\* scan resumes at p + 1, and a match is reported for every offset at
\* which the pattern matches (and for no other), also for offsets inside
\* an earlier match's span; every reported match is a fit of the pattern
\* with its capture range one (BIVALENT) or two (REPRPC) flank symbols
\* inside the span; BIVALENT in "KKGGGKK" yields the capture range [1,6).
C3_Overlap ==
    overlapped =>
        /\ pc = "seek" => pos = regs[1].start + 1
        /\ \A k \in 1..Len(yielded) :
             \E r \in 1..Len(s) :
                /\ Fits(pattern, s, yielded[k][1].start, r)
                /\ yielded[k] = RegsOf(pattern, yielded[k][1].start, r)
        /\ \A p \in 0..(Len(s) - 1) :
             ((p < pos \/ pc = "done") /\ MatchesAt(pattern, s, p))
                => p \in YieldedStarts
        /\ (/\ pc = "done" /\ pattern = "BIVALENT" /\ Len(s) >= 7
            /\ SubSeq(s, 1, 7) = <<"K","K","G","G","G","K","K">>)
             => \E k \in 1..Len(yielded) :
                    yielded[k] = <<[start |-> 0, end |-> 7],
                                   [start |-> 1, end |-> 6]>>

\* a later match starts inside the span of an earlier one
C3_Witness ==
    /\ pc = "done" /\ overlapped
    /\ \E j, k \in 1..Len(yielded) :
         /\ j < k
         /\ yielded[k][1].start > yielded[j][1].start
         /\ yielded[k][1].start < yielded[j][1].end

\* C4: the matches are yielded in non-decreasing order of their start
\* offsets.
C4_Order ==
    \A j, k \in 1..Len(yielded) :
        j < k => yielded[j][1].start <= yielded[k][1].start

C4_Witness ==
    /\ pc = "done" /\ Len(yielded) >= 2
    /\ yielded[1][1].start < yielded[2][1].start

\* C8: the capture starts are strictly increasing, so every capture range
\* has the loop read at least one new line (the guard n <= start holds on
\* entry and `line` is a freshly read line when it is converted); the
\* cursor never passes the end of the file; and when the capture range
\* with start offset st is converted the cursor is st + 1 and the line
\* used is input line st.
C8_Lockstep ==
    /\ \A j, k \in 1..Len(yielded) :
         j < k => yielded[j][2].start < yielded[k][2].start
    /\ n <= Len(file)
    /\ line.kind = "str" => line.rec = file[n]
    /\ (pc = "seek" /\ line.kind # "str") => n <= regs[2].start
    /\ (pc = "seek" /\ n > regs[2].start) =>
         /\ line.kind = "str"
         /\ n = regs[2].start + 1
         /\ line.rec = file[regs[2].start + 1]
    /\ (pc # "seek" /\ line.kind = "list") =>
         /\ n = regs[2].start + 1
         /\ line.fields[1] = file[regs[2].start + 1].chrom
         /\ line.fields[2] = file[regs[2].start + 1].start
    /\ Len(out) = IF pc = "seek" THEN Len(yielded) - 1 ELSE Len(yielded)
    /\ err \notin {"AttributeError: rstrip", "IndexError: list index",
                   "UnboundLocalError: line"}

\* the second capture range of a file is about to be converted
C8_Witness ==
    /\ pc = "seek" /\ Len(yielded) = 2
    /\ n = regs[2].start + 1 /\ n > yielded[1][2].start + 2
    /\ line.kind = "str"

\* C10: no reported match span contains the placeholder, so every capture
\* range [start, end) has 0 < start < end < N and covers only bins whose
\* confidence is > 0.5, and readline never returns '' (the end of the
\* file) while the reconstructor seeks a capture start.
C10_InsideFile ==
    /\ \A k \in 1..Len(yielded) :
         /\ \A q \in yielded[k][1].start..(yielded[k][1].end - 1) :
               s[q + 1] # "."
         /\ 0 < yielded[k][2].start
         /\ yielded[k][2].start < yielded[k][2].end
         /\ yielded[k][2].end < Len(file)
         /\ \A q \in yielded[k][2].start..(yielded[k][2].end - 1) :
               file[q + 1].p > 50
    /\ line.kind # "eof"

\* a match next to a bin of confidence 0.5
C10_Witness ==
    /\ pc = "done" /\ Len(yielded) >= 1
    /\ \E q \in 1..Len(file) :
         /\ file[q].p = 50
         /\ q = yielded[1][1].end + 1

----------------------------------------------------------------------------
(* The reconstructor and the formatter: claims C1, C6, C7, under Spec *)

\* C1: the record emitted for the capture range [ix, ix + L), L >= 1, has
\* the chromosome of line ix, the start of line ix when the slop is 0 and
\* max(0, start - slop) when it is positive, and the end of line ix plus
\* binsize * (L - 1) plus the slop, whatever L is.
C1_Coordinates ==
    \A k \in 1..Len(out) :
        LET ix == yielded[k][2].start
            L  == yielded[k][2].end - yielded[k][2].start
            ln == file[ix + 1]
        IN  /\ L >= 1
            /\ out[k][1] = ln.chrom
            /\ out[k][2] = IF slop = 0 THEN ln.start
                           ELSE IF ln.start - slop < 0 THEN 0
                                ELSE ln.start - slop
            /\ out[k][3] = ln.end + binsize * (L - 1) + slop

\* a capture of several bins whose start the slop floors at 0
C1_Witness ==
    /\ Len(out) >= 1
    /\ slop > file[yielded[1][2].start + 1].start
    /\ out[1][2] = 0
    /\ yielded[1][2].end - yielded[1][2].start >= 3
    /\ binsize # 200

\* the file of C6: seven lines that encode "KLGGGLK", each at 0.9
IsKLGGGLK ==
    /\ Len(file) = 7
    /\ \A k \in 1..7 :
         /\ file[k].p = 90
         /\ file[k].state = <<"E1","E2","E17","E17","E17","E2","E1">>[k]

C6_Case ==
    /\ pc = "done" /\ IsKLGGGLK /\ pattern = "BIVALENT"
    /\ binsize = 200 /\ slop = 0

\* C6 as stated: one interval, over bins 1-5, whose end is the end of
\* line 4 plus 200*3 (line 4 counted from 0 as the bins are, or from 1).
C6_Original ==
    C6_Case =>
        /\ Len(out) = 1
        /\ out[1][2] = file[2].start
        /\ \/ out[1][3] = file[5].end + 200 * 3
           \/ out[1][3] = file[4].end + 200 * 3

\* C6 as amended: one interval, over bins 1-5 inclusive: it starts at the
\* start of line 1 and its end is the end of line 1 plus 200*4, which is
\* the end of line 5.
C6_EndToEnd ==
    C6_Case =>
        /\ Len(out) = 1
        /\ out[1][1] = file[2].chrom
        /\ out[1][2] = file[2].start
        /\ out[1][3] = file[2].end + 200 * 4
        /\ out[1][3] = file[6].end

C6_Witness == C6_Case /\ Len(out) = 1 /\ file[1].start = 1000

\* C7: an output line has exactly 3 columns (chrom, start, end) in bed3
\* mode whatever the tag, exactly 6 (..., tissue, timepoint, tag) when
\* not bed3 and a (non-empty) tag is given, and exactly 5 (..., tissue,
\* timepoint) when not bed3 and no tag is given.
C7_Columns ==
    \A k \in 1..Len(out) :
        /\ Len(out[k]) = IF bed3 THEN 3
                         ELSE IF tag \notin {None, ""} THEN 6 ELSE 5
        /\ ~bed3 => out[k][4] = "lung" /\ out[k][5] = "15.5"
        /\ Len(out[k]) = 6 => out[k][6] = tag

C7_Witness ==
    /\ pc = "done" /\ Len(out) = 2
    /\ bed3 /\ tag = "bivalent"

====
